---- MODULE Spec2Model ----
(***************************************************************************)
(* A model of the competition-announcement bot of python/trake:            *)
(*   test_spider.py  AdCompetitionSpider (listing fetch, content          *)
(*                   extraction, field matching)                           *)
(*   newbot.py       TelegramBot (subscriber set, fan-out),                *)
(*                   CompetitionBot (dedup store, run_task), main          *)
(*                   (scheduled_task);                                     *)
(* and of the folder organizer of python/rename.py, organize_folders in    *)
(* its 'size' mode.                                                        *)
(* Chinese text of the source is written in pinyin, one token per          *)
(* character, so that substring tests stay substring tests.                *)
(***************************************************************************)
EXTENDS Naturals, Integers, Sequences, FiniteSets, TLC

VARIABLES
    pc,           \* position of scheduled_task: "idle" (about to call run_task) | "loop" | "iter" | "await" | "sleep" | "crashed"
    page,         \* history: how the listing fetch and the detail fetches of this pass ended
    news_urls,    \* fetch_news_urls' return value in the current pass
    k,            \* run_task: position of the for loop in competition_news
    store,        \* table competitions: the set of its rows
    chat_ids,     \* TelegramBot.chat_ids
    it_used,      \* send_message's set iterator: size of chat_ids when it was created
    it_seen,      \* chat ids the iterator has yielded
    it_stable,    \* chat ids in the set ever since the iterator was created
    cur,          \* the chat id whose delivery is awaited; "done" once the fan-out is over
    passLog,      \* history: one record per loop iteration run_task has made in this pass
    failed,       \* history: the chat ids whose delivery raised in the current fan-out
    seenAtStart,  \* history: the ids stored when the current pass started
    parseCalls,   \* history: the list items parse_news_content was called for in this pass
    pushCount,    \* history: id -> number of push_message calls made for it
    failedEarlier,\* history: titles whose extraction failed in a pass before this one
    exc,          \* the exception that ended scheduled_task, or "none"
    wpc,          \* two processing paths: the position of each inside save_competition
    wcomp,        \* the competition each path is saving, and when the call began
    callLog,      \* history: the calls of save_competition that returned, in order
    dbLock,       \* the database file's write lock: 0, or the path holding it
    pending,      \* what each path's transaction holds: the return value, the uncommitted row
    doc,          \* a detail page given to parse_news_content on its own
    info,         \* what parse_news_content returned for doc
    cmdLog,       \* history: the subscription commands handled one after the other
    it_late,      \* history: chat ids the iterator yielded that subscribed after it was created
    undelivered,  \* history: the ids inserted of which no delivery has returned without error
    opc,          \* position of organize_folders: "off" | "missing" | "called" | "loop" | "returned" | "refused"
    tree,         \* the directories below base_directory: path from the base, bytes of the files directly in it
    listed,       \* what is left of os.listdir(base_directory), in the order it was returned
    given,        \* history: tree when organize_folders was called
    logged        \* what the outer except clause logged: "none" | "ValueError" | "Error"

vars == <<pc, page, news_urls, k, store, chat_ids, it_used, it_seen, it_stable, cur,
          passLog, failed, seenAtStart, parseCalls, pushCount,
          failedEarlier, exc, wpc, wcomp, callLog, dbLock, pending,
          doc, info, cmdLog, it_late, undelivered,
          opc, tree, listed, given, logged>>

pipeVars == <<pc, page, news_urls, k, chat_ids, it_used, it_seen, it_stable, cur,
              passLog, failed, seenAtStart, parseCalls, pushCount,
              failedEarlier, exc, it_late, undelivered>>

pathVars == <<wpc, wcomp, callLog, dbLock, pending>>

extractVars == <<doc, info>>

folderVars == <<opc, tree, listed, given, logged>>

----------------------------------------------------------------------------
(* Bounds *)

\* The longest listing the site serves.
MaxItems == 2

\* The number of save_competition calls each concurrent path makes.
MaxCalls == 2

\* The most lines recognized in the image of a page given to the matcher.
MaxLines == 2

\* The most images of a page given to the extractor.
MaxImgs == 3

\* The longest sequence of subscription commands.
MaxCmds == 4

\* The most subdirectories the base directory holds when organize_folders is
\* called.
MaxDirs == 2

----------------------------------------------------------------------------
(* Text *)

\* s occurs in t as a contiguous substring (Python's `s in t`).
Contains(t, s) ==
    \E i \in 0..(Len(t) - Len(s)) : SubSeq(t, i + 1, i + Len(s)) = s

\* str.startswith
StartsWith(t, s) ==
    Len(t) >= Len(s) /\ SubSeq(t, 1, Len(s)) = s

base_url == <<"https://www.sun-ada.net">>

\* competition_keywords: da-guang-sai, zheng-ji, can-sai, bi-sai, jing-sai, zuo-pin
competition_keywords ==
    { <<"da", "guang", "sai">>, <<"zheng", "ji">>, <<"can", "sai">>,
      <<"bi", "sai">>, <<"jing", "sai">>, <<"zuo", "pin">> }

\* A classifier that takes every title for a competition.
IsCompetitionAlways(title) == TRUE

\* any(keyword in title for keyword in competition_keywords)
is_competition(title) ==
    \E kw \in competition_keywords : Contains(title, kw)

\* The url of a list item: an absolute href as it is, a rooted one after the
\* base url, any other after the base url and a slash.
ItemUrl(href) ==
    IF StartsWith(href, <<"http">>) THEN href
    ELSE IF StartsWith(href, <<"/">>) THEN base_url \o href
    ELSE base_url \o <<"/">> \o href

----------------------------------------------------------------------------
(* Field Matcher: the regular expressions of parse_news_content, on a text  *)
(* that is a sequence of tokens.  "nl" is a line break, "." the full stop   *)
(* (the ideographic one), ":" either colon; a date is one token, "Y.." in   *)
(* the year-month-day form and "P.." in the dotted form, whose leading      *)
(* digits, the year, are the token "P..y".                                  *)

YmdDates == {"Y1", "Y2"}

DotDates == {"P1", "P2"}

Whitespace == {"nl", " "}

\* The first position at or after i that holds no whitespace (\s* is greedy).
RECURSIVE SkipWs(_, _)
SkipWs(t, i) ==
    IF i <= Len(t) /\ t[i] \in Whitespace THEN SkipWs(t, i + 1) ELSE i

\* A character class: the tokens of set, or with neg every token but those.
InClass(c, cls) == IF cls.neg THEN c \notin cls.set ELSE c \in cls.set

\* The longest run of characters from position i on that are in the class
\* (class+ is greedy): whole tokens, and at its end the leading characters of
\* a token that is in the class only with those (part).
RECURSIVE Run(_, _, _)
Run(t, i, cls) ==
    IF i <= Len(t) /\ InClass(t[i], cls) THEN <<t[i]>> \o Run(t, i + 1, cls)
    ELSE IF i <= Len(t) /\ t[i] \in DOMAIN cls.part THEN <<cls.part[t[i]]>>
    ELSE <<>>

\* [^.\n]
NotStopNorBreak == [neg |-> TRUE, set |-> {".", "nl"}, part |-> [x \in {} |-> x]]

\* [\d nian yue ri \s zhi]: of a dotted date it takes the digits before the
\* first dot.
DateClass ==
    [ neg |-> FALSE, set |-> YmdDates \cup Whitespace \cup {"zhi"},
      part |-> [d \in DotDates |-> IF d = "P1" THEN "P1y" ELSE "P2y"] ]

\* re.search(label [:] \s* (class+), text): the capture of the leftmost match,
\* <<>> when there is none.  \s* takes all the whitespace after the colon and
\* gives it back, one character at a time, until the class matches: the
\* capture begins at the last position of that whitespace from which it does.
SearchLabelled(t, label, cls) ==
    LET begins(i) == { p \in (i + Len(label) + 1)..SkipWs(t, i + Len(label) + 1) :
                         Run(t, p, cls) # <<>> }
        hit(i) == /\ i + Len(label) <= Len(t)
                  /\ SubSeq(t, i, i + Len(label) - 1) = label
                  /\ t[i + Len(label)] = ":"
                  /\ begins(i) # {}
        hits == { i \in 1..Len(t) : hit(i) }
    IN  IF hits = {} THEN <<>>
        ELSE LET i == CHOOSE j \in hits : \A h \in hits : j <= h
                 p == CHOOSE q \in begins(i) : \A b \in begins(i) : b <= q
             IN  Run(t, p, cls)

\* re.search((date) \s* [joiners] \s* (date), text), lead saying whether the
\* pattern has the \s* before the joiner: the two groups of the leftmost
\* match, <<>> when there is no match.
RangeGroups(t, dates, joiners, lead) ==
    LET j1(i) == IF lead THEN SkipWs(t, i + 1) ELSE i + 1
        j2(i) == SkipWs(t, j1(i) + 1)
        hit(i) == /\ t[i] \in dates
                  /\ j1(i) <= Len(t) /\ t[j1(i)] \in joiners
                  /\ j2(i) <= Len(t) /\ t[j2(i)] \in dates
        hits == { i \in 1..Len(t) : hit(i) }
    IN  IF hits = {} THEN <<>>
        ELSE LET i == CHOOSE j \in hits : \A h \in hits : j <= h
             IN  << <<t[i]>>, <<t[j2(i)]>> >>

\* A date_info that keeps the first group only.
JoinFirstGroupOnly(groups) ==
    IF groups = <<>> THEN <<>> ELSE groups[1]

\* len(match.groups()) == 2: f"{match.group(1)}zhi{match.group(2)}"
JoinRange(groups) ==
    IF groups = <<>> THEN <<>> ELSE groups[1] \o <<"zhi">> \o groups[2]

\* The date_info a date-range pattern gives, <<>> when it does not match.
SearchRange(t, dates, joiners, lead) ==
    JoinRange(RangeGroups(t, dates, joiners, lead))

\* The six date patterns, in list order.
date_patterns(t) ==
    << SearchLabelled(t, <<"bao", "ming", "ri", "qi">>, DateClass),
       SearchLabelled(t, <<"bao", "ming", "shi", "jian">>, DateClass),
       SearchRange(t, YmdDates, {"zhi", "dao"}, FALSE),
       SearchRange(t, DotDates, {"zhi", "dao"}, FALSE),
       SearchRange(t, YmdDates, {"qi", "zhi", "dao"}, TRUE),
       SearchRange(t, DotDates, {"qi", "zhi", "dao"}, TRUE) >>

requirements_patterns(t) ==
    << SearchLabelled(t, <<"can", "sai", "dui", "xiang">>, NotStopNorBreak),
       SearchLabelled(t, <<"can", "sai", "zi", "ge">>, NotStopNorBreak),
       SearchLabelled(t, <<"can", "sai", "ren", "yuan">>, NotStopNorBreak),
       SearchLabelled(t, <<"can", "sai", "fan", "wei">>, NotStopNorBreak) >>

organizer_patterns(t) ==
    << SearchLabelled(t, <<"zhu", "ban">>, NotStopNorBreak),
       SearchLabelled(t, <<"zhu", "ban", "dan", "wei">>, NotStopNorBreak),
       SearchLabelled(t, <<"zhu", "ban", "fang">>, NotStopNorBreak) >>

undertaker_patterns(t) ==
    << SearchLabelled(t, <<"cheng", "ban">>, NotStopNorBreak),
       SearchLabelled(t, <<"cheng", "ban", "dan", "wei">>, NotStopNorBreak),
       SearchLabelled(t, <<"cheng", "ban", "fang">>, NotStopNorBreak) >>

\* A loop without the break: the last pattern that matches decides.
LastMatch(results, sentinel) ==
    LET hits == { i \in 1..Len(results) : results[i] # <<>> }
    IN  IF hits = {} THEN sentinel
        ELSE results[CHOOSE i \in hits : \A h \in hits : h <= i]

\* The for loop over a pattern family with its break: the result of the first
\* pattern that matches, the sentinel when none does.
FirstMatch(results, sentinel) ==
    LET hits == { i \in 1..Len(results) : results[i] # <<>> }
    IN  IF hits = {} THEN sentinel
        ELSE results[CHOOSE i \in hits : \A h \in hits : i <= h]

\* wei-zhao-dao bao-ming-ri-qi, ... : the four "not found" sentinels.
NoDate == <<"wei", "zhao", "dao", "bao", "ming", "ri", "qi">>

NoRequirements == <<"wei", "zhao", "dao", "can", "sai", "yao", "qiu">>

NoOrganizer == <<"wei", "zhao", "dao", "zhu", "ban", "fang">>

NoUndertaker == <<"wei", "zhao", "dao", "cheng", "ban", "fang">>

----------------------------------------------------------------------------
(* Content Extractor *)

\* get_text_from_image: the recognized lines joined by line breaks; the empty
\* text when the download raises, answers another status than 200, or the
\* image cannot be opened or recognized.
get_text_from_image(img) ==
    IF img.fetch # 200 \/ ~img.readable THEN <<>> ELSE img.text

\* A loop over img_tags that an image without text ends.
RECURSIVE ContentTextUntilFailure(_)
ContentTextUntilFailure(imgs) ==
    IF imgs = <<>> THEN <<>>
    ELSE LET img == Head(imgs)
             txt == IF img.src THEN get_text_from_image(img) ELSE <<>>
         IN  IF txt = <<>> THEN <<>>
             ELSE <<"nl">> \o txt \o ContentTextUntilFailure(Tail(imgs))

\* The loop over img_tags: content_text += "\n" + img_text for every image
\* that has a src and a non-empty text.
RECURSIVE ContentText(_)
ContentText(imgs) ==
    IF imgs = <<>> THEN <<>>
    ELSE LET img == Head(imgs)
             txt == IF img.src THEN get_text_from_image(img) ELSE <<>>
         IN  (IF txt # <<>> THEN <<"nl">> \o txt ELSE <<>>) \o ContentText(Tail(imgs))

None == [none |-> TRUE]

\* requests.get raises only when the transport fails; a response of any status
\* is returned, and parse_news_content never looks at its status.
DetailFetchRaises(resp) == resp.kind = "neterr"

\* A content_text that begins with the text of the HTML itself.
PageTextWithHtml(resp) == resp.html \o ContentText(resp.imgs)

\* content_text: the text of the page's images, and none of the HTML's own.
PageText(resp) == ContentText(resp.imgs)

\* A parse_news_content that returns the fields as the loops left them.
parse_without_sentinels(resp) ==
    IF DetailFetchRaises(resp) THEN None
    ELSE LET content_text == PageText(resp)
         IN  [ content      |-> content_text,
               date_info    |-> FirstMatch(date_patterns(content_text), <<>>),
               requirements |-> FirstMatch(requirements_patterns(content_text), <<>>),
               organizer    |-> FirstMatch(organizer_patterns(content_text), <<>>),
               undertaker   |-> FirstMatch(undertaker_patterns(content_text), <<>>) ]

\* parse_news_content: None when the fetch raises, else the text of the images
\* of whatever body came back and the four fields matched on it.
parse_news_content(resp) ==
    IF DetailFetchRaises(resp) THEN None
    ELSE LET content_text == PageText(resp)
         IN  [ content      |-> content_text,
               date_info    |-> FirstMatch(date_patterns(content_text), NoDate),
               requirements |-> FirstMatch(requirements_patterns(content_text), NoRequirements),
               organizer    |-> FirstMatch(organizer_patterns(content_text), NoOrganizer),
               undertaker   |-> FirstMatch(undertaker_patterns(content_text), NoUndertaker) ]

----------------------------------------------------------------------------
(* Listing Fetcher *)

\* requests.get on the listing raises only when the transport fails.
ListingFetchRaises(resp) == resp.kind = "neterr"

\* The body of the for loop of fetch_news_urls for the item at position index:
\* no record for an item without a link or a title, else the news_info, with
\* the content and the four fields when the title is relevant and
\* parse_news_content returned a result.
NewsInfo(index, item) ==
    LET bare == [ index |-> index, title |-> item.title, date |-> item.em,
                  url |-> ItemUrl(item.href),
                  is_competition |-> is_competition(item.title) ]
        content_info == parse_news_content(item.detail)
    IN  IF is_competition(item.title) /\ content_info # None
        THEN [ index |-> index, title |-> item.title, date |-> item.em,
               url |-> ItemUrl(item.href), is_competition |-> TRUE,
               content |-> content_info.content,
               date_info |-> content_info.date_info,
               requirements |-> content_info.requirements,
               organizer |-> content_info.organizer,
               undertaker |-> content_info.undertaker ]
        ELSE bare

\* An item the loop skips with `continue`.
Malformed(item) == ~item.link \/ ~item.h3

\* The loop over enumerate(news_items, 1), from position index on.
RECURSIVE NewsLoop(_, _)
NewsLoop(items, index) ==
    IF index > Len(items) THEN <<>>
    ELSE (IF Malformed(items[index]) THEN <<>>
          ELSE <<NewsInfo(index, items[index])>>) \o NewsLoop(items, index + 1)

\* The list items for which the loop calls parse_news_content.
ParseCalls(resp) ==
    IF ListingFetchRaises(resp) \/ ~resp.ul THEN {}
    ELSE { [index |-> i, title |-> resp.items[i].title] :
             i \in { j \in 1..Len(resp.items) :
                       ~Malformed(resp.items[j]) /\ is_competition(resp.items[j].title) } }

\* fetch_news_urls: the empty list when the fetch raises or the body holds no
\* ul.list_news; the status of the response is never read.
fetch_news_urls(resp) ==
    IF ListingFetchRaises(resp) THEN <<>>
    ELSE IF ~resp.ul THEN <<>>
    ELSE NewsLoop(resp.items, 1)

----------------------------------------------------------------------------
(* Dedup Store: table competitions, a set of rows *)

\* str(competition['index'])
IdOf(index) == ToString(index)

\* dict.get(key, default)
Get(d, key, default) == IF key \in DOMAIN d THEN d[key] ELSE default

\* A row whose id is the announcement's url.
RowKeyedByUrl(competition) ==
    [ id           |-> competition.url,
      title        |-> competition.title,
      url          |-> competition.url,
      date_info    |-> Get(competition, "date_info", <<>>),
      requirements |-> Get(competition, "requirements", <<>>),
      organizer    |-> Get(competition, "organizer", <<>>),
      undertaker   |-> Get(competition, "undertaker", <<>>),
      platform     |-> <<"da", "guang", "sai">> ]

\* The values of the INSERT, without created_at.
Row(competition) ==
    [ id           |-> IdOf(competition.index),
      title        |-> competition.title,
      url          |-> competition.url,
      date_info    |-> Get(competition, "date_info", <<>>),
      requirements |-> Get(competition, "requirements", <<>>),
      organizer    |-> Get(competition, "organizer", <<>>),
      undertaker   |-> Get(competition, "undertaker", <<>>),
      platform     |-> <<"da", "guang", "sai">> ]

\* A table whose id column is no key: no INSERT ever conflicts.
NoUniqueViolation(tbl, id) == FALSE

\* id TEXT PRIMARY KEY: the INSERT of a row whose id the table holds raises
\* sqlite3.IntegrityError.
UniqueViolation(tbl, id) == \E r \in tbl : r.id = id

\* An INSERT whose transaction is rolled back.
InsertRolledBack(tbl, row) == tbl

\* INSERT INTO competitions ... and conn.commit()
InsertRow(tbl, row) == tbl \cup {row}

\* A save_competition whose statement is INSERT OR REPLACE.
save_or_replace(tbl, competition, fault) ==
    IF fault THEN [ret |-> "raised", tbl |-> tbl]
    ELSE [ ret |-> "True",
           tbl |-> { r \in tbl : r.id # Row(competition).id } \cup {Row(competition)} ]

\* save_competition, run without interruption: True and the row inserted and
\* committed; False and the table as it was on IntegrityError; any other
\* sqlite3 error (fault) leaves the function as an exception, nothing committed.
save_competition(tbl, competition, fault) ==
    IF fault THEN [ret |-> "raised", tbl |-> tbl]
    ELSE IF UniqueViolation(tbl, Row(competition).id)
         THEN [ret |-> "False", tbl |-> tbl]
         ELSE [ret |-> "True", tbl |-> InsertRow(tbl, Row(competition))]

\* init_database: CREATE TABLE IF NOT EXISTS keeps the rows of an earlier run.
init_database(tbl) == tbl

\* A store that checks the key without holding the write lock.
CanAlwaysBeginWrite(lock) == TRUE

\* c.execute(INSERT) opens the write transaction: SQLite grants the file's
\* write lock to one connection at a time, and the others wait for it.
CanBeginWrite(lock) == lock = 0

----------------------------------------------------------------------------
(* What the site and the network may answer *)

\* "da guang sai zheng ji": relevant by two keywords.
TitleA == <<"da", "guang", "sai", "zheng", "ji">>

\* "she ji bi sai": relevant by one keyword.
TitleB == <<"she", "ji", "bi", "sai">>

\* "sai bi tong zhi": the characters of a keyword, never a keyword.
TitleC == <<"sai", "bi", "tong", "zhi">>

ImgOrganizer ==
    [ src |-> TRUE, fetch |-> 200, readable |-> TRUE,
      text |-> <<"zhu", "ban", ":", "CAA">> ]

ImgDates ==
    [ src |-> TRUE, fetch |-> 200, readable |-> TRUE,
      text |-> <<"Y1", "dao", "Y2">> ]

ImgBroken == [ src |-> TRUE, fetch |-> 404, readable |-> FALSE, text |-> <<>> ]

\* The transport failed: requests.get raises.
DetailNetErr == [kind |-> "neterr"]

\* A non-success response: an error page without images.
DetailHttpErr == [kind |-> "resp", status |-> 404, imgs |-> <<>>]

DetailOkA == [kind |-> "resp", status |-> 200, imgs |-> <<ImgOrganizer>>]

DetailOkB == [kind |-> "resp", status |-> 200, imgs |-> <<ImgBroken, ImgDates>>]

DetailAnswers == {DetailNetErr, DetailHttpErr, DetailOkA, DetailOkB}

ItemsA ==
    { [ link |-> TRUE, h3 |-> TRUE, title |-> TitleA, em |-> "2024-03-01",
        href |-> <<"/", "news/a.html">>, detail |-> d ] :
      d \in {DetailNetErr, DetailHttpErr, DetailOkA} }

ItemB ==
    [ link |-> TRUE, h3 |-> TRUE, title |-> TitleB, em |-> "",
      href |-> <<"news/b.html">>, detail |-> DetailOkB ]

ItemC ==
    [ link |-> TRUE, h3 |-> TRUE, title |-> TitleC, em |-> "2024-01-15",
      href |-> <<"http", "://other.example/c.html">>, detail |-> DetailOkA ]

ItemNoTitle ==
    [ link |-> TRUE, h3 |-> FALSE, title |-> <<>>, em |-> "",
      href |-> <<"news/x.html">>, detail |-> DetailNetErr ]

Items == ItemsA \cup {ItemB, ItemC, ItemNoTitle}

ItemLists == UNION { [1..n -> Items] : n \in 0..MaxItems }

\* The answers to the listing fetch: a transport failure, or a response of
\* status 200 or 500 whose body holds the list or does not.
ListingAnswers ==
    { [kind |-> "neterr", status |-> 0, ul |-> FALSE, items |-> <<>>] }
    \cup { [kind |-> "resp", status |-> st, ul |-> FALSE, items |-> <<>>] : st \in {200, 500} }
    \cup { [kind |-> "resp", status |-> 200, ul |-> TRUE, items |-> l] : l \in ItemLists }
    \cup { [kind |-> "resp", status |-> 500, ul |-> TRUE, items |-> <<i>>] : i \in Items }

\* Lines an image may show: the labels of the four families with a value,
\* a label at the end of its line, a value of blanks, dates in both forms.
Lines ==
    { <<"zhu", "ban", ":", "CAA">>,
      <<"zhu", "ban", "dan", "wei", ":", "CAB", ".", "X">>,
      <<"zhu", "ban", "fang", ":", "CAC">>,
      <<"zhu", "ban", ":", " ", ".">>,
      <<"cheng", "ban", ":">>,
      <<"cheng", "ban", "fang", ":", " ", "CUC">>,
      <<"can", "sai", "dui", "xiang", ":", "STU">>,
      <<"can", "sai", "fan", "wei", ":", "ALL">>,
      <<"bao", "ming", "ri", "qi", ":", "Y1", "zhi", "Y2">>,
      <<"bao", "ming", "shi", "jian", ":", "P1", "zhi", "P2">>,
      <<"Y1", "dao", "Y2">>,
      <<"P1", "zhi", "P2">>,
      <<"Y2", " ", "qi", " ", "Y1">>,
      <<"P2", " ", "dao", "P1">> }

\* "\n".join(text_list)
RECURSIVE JoinLines(_)
JoinLines(lines) ==
    IF lines = <<>> THEN <<>>
    ELSE IF Len(lines) = 1 THEN lines[1]
    ELSE lines[1] \o <<"nl">> \o JoinLines(Tail(lines))

ImgUnreadable == [ src |-> TRUE, fetch |-> 200, readable |-> FALSE, text |-> <<>> ]

ImgNoSrc == [ src |-> FALSE, fetch |-> 200, readable |-> TRUE, text |-> <<"X">> ]

ImgBlank == [ src |-> TRUE, fetch |-> 200, readable |-> TRUE, text |-> <<>> ]

ImageKinds == {ImgOrganizer, ImgDates, ImgBroken, ImgUnreadable, ImgNoSrc, ImgBlank}

\* The text of the HTML outside the images.
HtmlTexts == { <<>>, <<"zhu", "ban", ":", "WEB", "nl", "Y1", "zhi", "Y2">> }

\* The detail pages given to parse_news_content: one image of up to MaxLines
\* lines; up to MaxImgs images of the kinds above; a failed transport; an
\* error page.
Docs ==
    { [ kind |-> "resp", status |-> 200, html |-> <<>>,
        imgs |-> << [ src |-> TRUE, fetch |-> 200, readable |-> TRUE,
                      text |-> JoinLines(l) ] >> ] :
      l \in UNION { [1..n -> Lines] : n \in 1..MaxLines } }
    \cup { [ kind |-> "resp", status |-> 200, html |-> h, imgs |-> i ] :
             h \in HtmlTexts, i \in UNION { [1..n -> ImageKinds] : n \in 0..MaxImgs } }
    \cup { [ kind |-> "neterr", status |-> 0, html |-> <<>>, imgs |-> <<>> ],
           [ kind |-> "resp", status |-> 404, html |-> <<"X">>, imgs |-> <<>> ] }

NoDoc == [kind |-> "none"]

NotCalled == [called |-> FALSE]

Chats == {"c1", "c2"}

Paths == {1, 2}

----------------------------------------------------------------------------
(* The pipeline: main, scheduled_task, run_task, push_message, send_message *)

\* competition_news = [news for news in news_urls if news['is_competition']]
competition_news == SelectSeq(news_urls, LAMBDA n : n.is_competition)

\* A condition that lets a competition without content through.
HasContentAlways(competition) == TRUE

\* run_task's condition, first half: 'content' in competition
HasContent(competition) == "content" \in DOMAIN competition

\* A condition that ignores what save_competition returned.
PushesWhateverSaved(hasContent, saved) == hasContent

\* run_task's condition: 'content' in competition and save_competition(...)
Pushes(hasContent, saved) == hasContent /\ saved = "True"

\* A send_message without the try around the delivery.
SendMessageCatchesNothing(e) == FALSE

\* send_message's `except Exception` around each delivery.
SendMessageCatches(e) == TRUE

\* The relevant titles whose entry came back from fetch_news_urls without content.
FailedTitles(news) ==
    { news[i].title : i \in { j \in 1..Len(news) :
                                 news[j].is_competition /\ "content" \notin DOMAIN news[j] } }

LogEntry(competition, saved, pushed) ==
    [ index |-> competition.index, title |-> competition.title,
      hasContent |-> "content" \in DOMAIN competition, saved |-> saved, pushed |-> pushed ]

\* How a fetch ended: "neterr", or the status of the response.
Outcome(resp) == IF resp.kind = "neterr" THEN "neterr" ELSE ToString(resp.status)

\* What a pass keeps of the site's answers: the listing's outcome and, by
\* listing position, the outcome of the item's detail page.
PageOf(resp) ==
    [ listing |-> Outcome(resp),
      titles  |-> [i \in 1..Len(resp.items) |-> resp.items[i].title],
      details |-> [i \in 1..Len(resp.items) |-> Outcome(resp.items[i].detail)] ]

NoPage == [listing |-> "none", titles |-> <<>>, details |-> <<>>]

Ids == { IdOf(i) : i \in 1..MaxItems }

\* The state after CompetitionBot.__init__ and TelegramBot.__init__.
Constructed ==
    /\ pc = "idle"
    /\ page = NoPage
    /\ news_urls = <<>>
    /\ k = 1
    /\ store = init_database({})
    /\ chat_ids = {}
    /\ it_used = 0
    /\ it_seen = {}
    /\ it_stable = {}
    /\ cur = "none"
    /\ passLog = <<>>
    /\ failed = {}
    /\ seenAtStart = {}
    /\ parseCalls = {}
    /\ pushCount = [i \in Ids |-> 0]
    /\ failedEarlier = {}
    /\ exc = "none"
    /\ wpc = [w \in Paths |-> "ready"]
    /\ wcomp = [w \in Paths |-> None]
    /\ callLog = <<>>
    /\ dbLock = 0
    /\ pending = [w \in Paths |-> None]
    /\ cmdLog = <<>>
    /\ it_late = {}
    /\ undelivered = {}

\* organize_folders is not called.
NoFolders ==
    /\ opc = "off"
    /\ tree = {}
    /\ listed = <<>>
    /\ given = {}
    /\ logged = "none"

Init ==
    /\ Constructed
    /\ doc = NoDoc
    /\ info = NotCalled
    /\ NoFolders

\* scheduled_task: the sleep is over (or the task has just started); run_task
\* calls fetch_news_urls, which fetches the listing and every relevant entry's
\* detail page before it returns.
Tick(resp) ==
    /\ pc = "idle"
    /\ page' = PageOf(resp)
    /\ news_urls' = fetch_news_urls(resp)
    /\ parseCalls' = ParseCalls(resp)
    /\ k' = 1
    /\ passLog' = <<>>
    /\ failed' = {}
    /\ seenAtStart' = { r.id : r \in store }
    /\ it_used' = 0
    /\ it_seen' = {}
    /\ it_stable' = {}
    /\ cur' = "none"
    /\ pc' = "loop"
    /\ UNCHANGED <<store, chat_ids, pushCount, failedEarlier, exc>>
    /\ it_late' = {}
    /\ UNCHANGED undelivered
    /\ UNCHANGED <<pathVars, extractVars, cmdLog, folderVars>>

\* run_task's loop at a competition without content: the condition is false
\* before save_competition is called.
SkipNoContent ==
    /\ pc = "loop"
    /\ k <= Len(competition_news)
    /\ ~HasContent(competition_news[k])
    /\ passLog' = Append(passLog, LogEntry(competition_news[k], "not_called", FALSE))
    /\ k' = k + 1
    /\ UNCHANGED <<pc, page, news_urls, store, chat_ids, it_used, it_seen, it_stable, cur,
                   failed, seenAtStart, parseCalls, pushCount,
                   failedEarlier, exc>>
    /\ UNCHANGED <<it_late, undelivered>>
    /\ UNCHANGED <<pathVars, extractVars, cmdLog, folderVars>>

\* run_task's loop at a competition with content: save_competition, and on
\* True push_message, which builds the message and enters send_message's loop
\* over chat_ids.
SaveAndPush(fault) ==
    /\ pc = "loop"
    /\ k <= Len(competition_news)
    /\ HasContent(competition_news[k])
    /\ LET competition == competition_news[k]
           r == save_competition(store, competition, fault)
           pushed == Pushes(TRUE, r.ret)
       IN  /\ store' = r.tbl
           /\ passLog' = Append(passLog, LogEntry(competition, r.ret, r.ret # "raised" /\ pushed))
           /\ undelivered' = IF r.ret = "True"
                             THEN undelivered \cup {IdOf(competition.index)}
                             ELSE undelivered
           /\ it_late' = {}
           /\ IF r.ret = "raised"
              THEN /\ pc' = "crashed"
                   /\ exc' = "OperationalError"
                   /\ UNCHANGED <<k, it_used, it_seen, it_stable, cur, failed,
                                  pushCount>>
              ELSE IF pushed
              THEN /\ pc' = "iter"
                   /\ it_used' = Cardinality(chat_ids)
                   /\ it_seen' = {}
                   /\ it_stable' = chat_ids
                   /\ failed' = {}
                   /\ pushCount' = [pushCount EXCEPT ![IdOf(competition.index)] = @ + 1]
                   /\ cur' = "none"
                   /\ UNCHANGED <<k, exc>>
              ELSE /\ k' = k + 1
                   /\ UNCHANGED <<pc, it_used, it_seen, it_stable, cur, failed,
                                  pushCount, exc>>
    /\ UNCHANGED <<page, news_urls, chat_ids, seenAtStart, parseCalls, failedEarlier>>
    /\ UNCHANGED <<pathVars, extractVars, cmdLog, folderVars>>

\* send_message's for statement asks the set iterator for the next chat id: the
\* iterator raises RuntimeError when the set's size is not the one it started
\* with, and the for statement is outside the try.
IterRaises ==
    /\ pc = "iter"
    /\ Cardinality(chat_ids) # it_used
    /\ pc' = "crashed"
    /\ exc' = "RuntimeError"
    /\ UNCHANGED <<page, news_urls, k, store, chat_ids, it_used, it_seen, it_stable, cur,
                   passLog, failed, seenAtStart, parseCalls, pushCount,
                   failedEarlier>>
    /\ UNCHANGED <<it_late, undelivered>>
    /\ UNCHANGED <<pathVars, extractVars, cmdLog, folderVars>>

\* The iterator yields a chat id it has not yielded, in the table's order, which
\* the model leaves open; the delivery is awaited.
IterYields(c) ==
    /\ pc = "iter"
    /\ Cardinality(chat_ids) = it_used
    /\ c \in chat_ids \ it_seen
    /\ it_seen' = it_seen \cup {c}
    /\ cur' = c
    /\ pc' = "await"
    /\ UNCHANGED <<page, news_urls, k, store, chat_ids, it_used, it_stable,
                   passLog, failed, seenAtStart, parseCalls, pushCount,
                   failedEarlier, exc>>
    /\ it_late' = IF c \in it_stable THEN it_late ELSE it_late \cup {c}
    /\ UNCHANGED undelivered
    /\ UNCHANGED <<pathVars, extractVars, cmdLog, folderVars>>

\* The iterator is exhausted: it has yielded every chat id that stayed in the
\* set; send_message and push_message return and the loop goes on.
IterEnds ==
    /\ pc = "iter"
    /\ Cardinality(chat_ids) = it_used
    /\ it_stable \subseteq it_seen
    /\ pc' = "loop"
    /\ k' = k + 1
    /\ cur' = "done"
    /\ UNCHANGED <<page, news_urls, store, chat_ids, it_used, it_seen, it_stable,
                   passLog, failed, seenAtStart, parseCalls, pushCount,
                   failedEarlier, exc>>
    /\ UNCHANGED <<it_late, undelivered>>
    /\ UNCHANGED <<pathVars, extractVars, cmdLog, folderVars>>

\* The awaited bot.send_message returns (ok) or raises; the except clause
\* logs what it catches and the loop goes on.
DeliveryReturns(ok) ==
    /\ pc = "await"
    /\ failed' = IF ok THEN failed ELSE failed \cup {cur}
    /\ IF ok \/ SendMessageCatches("delivery")
       THEN pc' = "iter" /\ exc' = exc
       ELSE pc' = "crashed" /\ exc' = "delivery"
    /\ UNCHANGED <<page, news_urls, k, store, chat_ids, it_used, it_seen, it_stable, cur,
                   passLog, seenAtStart, parseCalls, pushCount, failedEarlier>>
    /\ undelivered' = IF ok THEN undelivered \ {IdOf(competition_news[k].index)} ELSE undelivered
    /\ UNCHANGED it_late
    /\ UNCHANGED <<pathVars, extractVars, cmdLog, folderVars>>

\* A loop that calls run_task again as soon as it returned.
AfterRunTaskNoSleep == "idle"

\* Where scheduled_task is after run_task returned: at asyncio.sleep.
AfterRunTask == "sleep"

\* run_task returns, its locals are gone; scheduled_task awaits
\* asyncio.sleep(12 * 3600).
PassDone ==
    /\ pc = "loop"
    /\ k > Len(competition_news)
    /\ pc' = AfterRunTask
    /\ failedEarlier' = failedEarlier \cup FailedTitles(news_urls)
    /\ page' = NoPage
    /\ news_urls' = <<>>
    /\ k' = 1
    /\ it_used' = 0
    /\ it_seen' = {}
    /\ it_stable' = {}
    /\ cur' = "none"
    /\ passLog' = <<>>
    /\ failed' = {}
    /\ seenAtStart' = {}
    /\ parseCalls' = {}
    /\ UNCHANGED <<store, chat_ids, pushCount, exc>>
    /\ it_late' = {}
    /\ UNCHANGED undelivered
    /\ UNCHANGED <<pathVars, extractVars, cmdLog, folderVars>>

\* asyncio.sleep(12 * 3600) returns: the while loop calls run_task again.
SleepReturns ==
    /\ pc = "sleep"
    /\ pc' = "idle"
    /\ UNCHANGED <<page, news_urls, k, store, chat_ids, it_used, it_seen, it_stable, cur,
                   passLog, failed, seenAtStart, parseCalls, pushCount,
                   failedEarlier, exc>>
    /\ UNCHANGED <<it_late, undelivered>>
    /\ UNCHANGED <<pathVars, extractVars, cmdLog, folderVars>>

\* The event loop runs a command handler only while scheduled_task is suspended:
\* at the sleep or at an awaited delivery.
Suspended == pc \in {"sleep", "await"}

\* A /subscribe that unsubscribes who is subscribed.
Toggle(s, c) == IF c \in s THEN s \ {c} ELSE s \cup {c}

\* set.add
Add(s, c) == s \cup {c}

\* set.discard
Discard(s, c) == s \ {c}

\* subscribe_command: chat_ids.add(chat_id)
subscribe_command(c) ==
    /\ Suspended
    /\ chat_ids' = Add(chat_ids, c)
    /\ UNCHANGED <<pc, page, news_urls, k, store, it_used, it_seen, it_stable, cur,
                   passLog, failed, seenAtStart, parseCalls, pushCount,
                   failedEarlier, exc>>
    /\ UNCHANGED <<it_late, undelivered>>
    /\ UNCHANGED <<pathVars, extractVars, cmdLog, folderVars>>

\* unsubscribe_command: chat_ids.discard(chat_id)
unsubscribe_command(c) ==
    /\ Suspended
    /\ chat_ids' = Discard(chat_ids, c)
    /\ it_stable' = IF pc = "await" THEN it_stable \ {c} ELSE it_stable
    /\ UNCHANGED <<pc, page, news_urls, k, store, it_used, it_seen, cur,
                   passLog, failed, seenAtStart, parseCalls, pushCount,
                   failedEarlier, exc>>
    /\ UNCHANGED <<it_late, undelivered>>
    /\ UNCHANGED <<pathVars, extractVars, cmdLog, folderVars>>

\* The exception left main and the process ended; the host starts it again:
\* the database file is as it was, chat_ids is a new empty set.
Restart ==
    /\ pc = "crashed"
    /\ pc' = "idle"
    /\ exc' = "none"
    /\ store' = init_database(store)
    /\ chat_ids' = {}
    /\ failedEarlier' = failedEarlier \cup FailedTitles(news_urls)
    /\ page' = NoPage
    /\ news_urls' = <<>>
    /\ k' = 1
    /\ it_used' = 0
    /\ it_seen' = {}
    /\ it_stable' = {}
    /\ cur' = "none"
    /\ passLog' = <<>>
    /\ failed' = {}
    /\ seenAtStart' = {}
    /\ parseCalls' = {}
    /\ UNCHANGED pushCount
    /\ it_late' = {}
    /\ UNCHANGED undelivered
    /\ UNCHANGED <<pathVars, extractVars, cmdLog, folderVars>>

Next ==
    \/ \E resp \in ListingAnswers : Tick(resp)
    \/ SkipNoContent
    \/ \E fault \in BOOLEAN : SaveAndPush(fault)
    \/ IterRaises
    \/ \E c \in Chats : IterYields(c)
    \/ IterEnds
    \/ \E ok \in BOOLEAN : DeliveryReturns(ok)
    \/ PassDone
    \/ SleepReturns
    \/ \E c \in Chats : subscribe_command(c)
    \/ \E c \in Chats : unsubscribe_command(c)
    \/ Restart

Spec == Init /\ [][Next]_vars

----------------------------------------------------------------------------
(* save_competition called from two independent processing paths, each with  *)
(* its own connection to the database file                                   *)

\* The competitions the paths save: two announcements at the same ordinal,
\* and one at another.
PathArgs ==
    { NewsInfo(1, CHOOSE i \in ItemsA : i.detail = DetailOkA),
      NewsInfo(1, ItemB),
      NewsInfo(2, ItemB) }

CallsOf(w) ==
    Cardinality({ i \in 1..Len(callLog) : callLog[i].path = w })

\* conn = sqlite3.connect(self.db_path); c = conn.cursor()
PathCall(w, competition) ==
    /\ wpc[w] = "ready"
    /\ CallsOf(w) < MaxCalls
    /\ wpc' = [wpc EXCEPT ![w] = "execute"]
    /\ wcomp' = [wcomp EXCEPT ![w] = [competition |-> competition, begun |-> Len(callLog)]]
    /\ UNCHANGED <<store, callLog, dbLock, pending>>
    /\ UNCHANGED <<pipeVars, extractVars, cmdLog, folderVars>>

\* c.execute(INSERT ...): with the write lock, the primary key is checked
\* against the committed rows; the row is written to the transaction, or
\* sqlite3.IntegrityError is raised and caught.
PathExecute(w) ==
    /\ wpc[w] = "execute"
    /\ CanBeginWrite(dbLock)
    /\ dbLock' = w
    /\ LET row == Row(wcomp[w].competition)
       IN  IF UniqueViolation(store, row.id)
           THEN /\ pending' = [pending EXCEPT ![w] = [ret |-> "False", row |-> row]]
                /\ wpc' = [wpc EXCEPT ![w] = "close"]
           ELSE /\ pending' = [pending EXCEPT ![w] = [ret |-> "True", row |-> row]]
                /\ wpc' = [wpc EXCEPT ![w] = "commit"]
    /\ UNCHANGED <<store, wcomp, callLog>>
    /\ UNCHANGED <<pipeVars, extractVars, cmdLog, folderVars>>

\* conn.commit(): the row is in the table and the lock is released.
PathCommit(w) ==
    /\ wpc[w] = "commit"
    /\ store' = InsertRow(store, pending[w].row)
    /\ dbLock' = IF dbLock = w THEN 0 ELSE dbLock
    /\ wpc' = [wpc EXCEPT ![w] = "close"]
    /\ UNCHANGED <<wcomp, callLog, pending>>
    /\ UNCHANGED <<pipeVars, extractVars, cmdLog, folderVars>>

\* finally: conn.close(), which ends a transaction left open, and the return.
PathClose(w) ==
    /\ wpc[w] = "close"
    /\ dbLock' = IF dbLock = w THEN 0 ELSE dbLock
    /\ callLog' = Append(callLog, [ path |-> w, id |-> pending[w].row.id,
                                     row |-> pending[w].row, ret |-> pending[w].ret,
                                     begun |-> wcomp[w].begun ])
    /\ wpc' = [wpc EXCEPT ![w] = "ready"]
    /\ wcomp' = [wcomp EXCEPT ![w] = None]
    /\ pending' = [pending EXCEPT ![w] = None]
    /\ UNCHANGED store
    /\ UNCHANGED <<pipeVars, extractVars, cmdLog, folderVars>>

NextConc ==
    \/ \E w \in Paths, competition \in PathArgs : PathCall(w, competition)
    \/ \E w \in Paths : PathExecute(w)
    \/ \E w \in Paths : PathCommit(w)
    \/ \E w \in Paths : PathClose(w)

SpecConc == Init /\ [][NextConc]_vars

----------------------------------------------------------------------------
(* parse_news_content on its own, for every page of Docs *)

InitExtract ==
    /\ Constructed
    /\ doc \in Docs
    /\ info = NotCalled
    /\ NoFolders

Extract ==
    /\ info = NotCalled
    /\ doc # NoDoc
    /\ info' = parse_news_content(doc)
    /\ UNCHANGED <<doc, cmdLog, store>>
    /\ UNCHANGED <<pipeVars, pathVars, folderVars>>

NextExtract == Extract

SpecExtract == InitExtract /\ [][NextExtract]_vars

----------------------------------------------------------------------------
(* The subscription commands on their own: the application handles one       *)
(* update after the other                                                    *)

HandleSubscribe(c) ==
    /\ Len(cmdLog) < MaxCmds
    /\ chat_ids' = Add(chat_ids, c)
    /\ cmdLog' = Append(cmdLog, [cmd |-> "subscribe", chat |-> c, before |-> chat_ids])
    /\ UNCHANGED <<pc, page, news_urls, k, store, it_used, it_seen, it_stable, cur,
                   passLog, failed, seenAtStart, parseCalls, pushCount,
                   failedEarlier, exc>>
    /\ UNCHANGED <<pathVars, extractVars, it_late, undelivered, folderVars>>

HandleUnsubscribe(c) ==
    /\ Len(cmdLog) < MaxCmds
    /\ chat_ids' = Discard(chat_ids, c)
    /\ cmdLog' = Append(cmdLog, [cmd |-> "unsubscribe", chat |-> c, before |-> chat_ids])
    /\ UNCHANGED <<pc, page, news_urls, k, store, it_used, it_seen, it_stable, cur,
                   passLog, failed, seenAtStart, parseCalls, pushCount,
                   failedEarlier, exc>>
    /\ UNCHANGED <<pathVars, extractVars, it_late, undelivered, folderVars>>

NextCmds ==
    \/ \E c \in Chats : HandleSubscribe(c)
    \/ \E c \in Chats : HandleUnsubscribe(c)

SpecCmds == Init /\ [][NextCmds]_vars

----------------------------------------------------------------------------
(* rename.py: organize_folders(base_directory, mode='size').  A directory   *)
(* is the sequence of names that leads to it from base_directory; sizes are *)
(* counted in KiB, so that the code's 100 * 1024 * 1024 bytes is 100 * 1024 *)

\* size_categories
size_categories == [small |-> 0, medium |-> 100 * 1024, large |-> 1 * 1024 * 1024]

\* The keys of size_categories.
Categories == {"small", "medium", "large"}

\* The names of the subdirectories a base directory may hold.
FolderNames == { "d" \o ToString(i) : i \in 1..MaxDirs }

\* The sizes a subdirectory's files may add up to: on and next to the limits.
FolderSizes == { 0, size_categories.medium - 1, size_categories.medium,
                 size_categories.large - 1, size_categories.large }

\* The base directories organize_folders may be given: every choice of
\* subdirectories, each holding files only.
Trees ==
    { { [path |-> <<n>>, bytes |-> f[n]] : n \in S } :
        S \in SUBSET FolderNames, f \in [FolderNames -> FolderSizes] }

Dirs(t) == { e.path : e \in t }

\* os.path.isdir
isdir(t, p) == p \in Dirs(t)

\* p is q or a directory above q.
IsPrefix(p, q) == Len(p) <= Len(q) /\ SubSeq(q, 1, Len(p)) = p

RECURSIVE SumBytes(_)
SumBytes(es) ==
    IF es = {} THEN 0
    ELSE LET e == CHOOSE x \in es : TRUE IN e.bytes + SumBytes(es \ {e})

\* sum(os.path.getsize(...) for ... in os.walk(item_path) ...)
total_size(t, item_path) == SumBytes({ e \in t : IsPrefix(item_path, e.path) })

\* The if / elif / else that picks dest.
Dest(total) ==
    IF total < size_categories.medium THEN "small"
    ELSE IF total < size_categories.large THEN "medium"
    ELSE "large"

\* os.makedirs(p, exist_ok=True)
makedirs(t, p) ==
    t \cup { [path |-> SubSeq(p, 1, j), bytes |-> 0] : j \in { i \in 1..Len(p) : SubSeq(p, 1, i) \notin Dirs(t) } }

\* shutil.move(src, dst) for a directory src: into dst when dst is a directory,
\* else to dst.  It raises when the target exists or lies inside src; when
\* os.rename fails because dst's parent is missing, copytree makes the parent.
shutil_move(t, src, dst) ==
    LET real_dst == IF isdir(t, dst) THEN Append(dst, src[Len(src)]) ELSE dst
        Moved(e) == [path |-> real_dst \o SubSeq(e.path, Len(src) + 1, Len(e.path)), bytes |-> e.bytes]
    IN  IF isdir(t, dst) /\ isdir(t, real_dst)
        THEN [raised |-> TRUE, tree |-> t]
        ELSE IF IsPrefix(src, real_dst)
        THEN [raised |-> TRUE, tree |-> t]
        ELSE [raised |-> FALSE,
              tree |-> makedirs({ e \in t : ~IsPrefix(src, e.path) }, SubSeq(real_dst, 1, Len(real_dst) - 1))
                          \cup { Moved(e) : e \in { x \in t : IsPrefix(src, x.path) } }]

\* os.listdir(base_directory): the names in the base directory.
listdir(t) == { p[1] : p \in { q \in Dirs(t) : Len(q) = 1 } }

\* The orders in which os.listdir may return the names: any.
Orders(names) ==
    { o \in [1..Cardinality(names) -> names] : \A i, j \in 1..Cardinality(names) : o[i] = o[j] => i = j }

\* One iteration of the loop over os.listdir(base_directory): the move of item.
MoveOf(t, item) == shutil_move(t, <<item>>, <<Dest(total_size(t, <<item>>)), item>>)

InitSize ==
    /\ Constructed
    /\ doc = NoDoc
    /\ info = NotCalled
    /\ \/ opc = "called" /\ tree \in Trees
       \/ opc = "missing" /\ tree = {}
    /\ listed = <<>>
    /\ given = tree
    /\ logged = "none"

\* base_directory does not exist: the ValueError is raised and logged.
BaseMissing ==
    /\ opc = "missing"
    /\ opc' = "refused"
    /\ logged' = "ValueError"
    /\ UNCHANGED <<tree, listed, given>>
    /\ UNCHANGED <<pipeVars, pathVars, extractVars, cmdLog, store>>

\* The three category directories are made, and the base directory is listed.
MakeCategories ==
    /\ opc = "called"
    /\ LET made == makedirs(makedirs(makedirs(tree, <<"small">>), <<"medium">>), <<"large">>)
       IN  /\ tree' = made
           /\ listed' \in Orders(listdir(made))
    /\ opc' = "loop"
    /\ UNCHANGED <<given, logged>>
    /\ UNCHANGED <<pipeVars, pathVars, extractVars, cmdLog, store>>

\* One iteration of the loop: the item is not a directory, or it is moved.
MoveItem ==
    /\ opc = "loop"
    /\ listed # <<>>
    /\ isdir(tree, <<Head(listed)>>) => ~MoveOf(tree, Head(listed)).raised
    /\ tree' = IF isdir(tree, <<Head(listed)>>) THEN MoveOf(tree, Head(listed)).tree ELSE tree
    /\ listed' = Tail(listed)
    /\ UNCHANGED <<opc, given, logged>>
    /\ UNCHANGED <<pipeVars, pathVars, extractVars, cmdLog, store>>

\* shutil.move raises: the loop is left, the outer except clause logs the
\* error and organize_folders returns.
MoveRaises ==
    /\ opc = "loop"
    /\ listed # <<>>
    /\ isdir(tree, <<Head(listed)>>)
    /\ MoveOf(tree, Head(listed)).raised
    /\ opc' = "returned"
    /\ logged' = "Error"
    /\ UNCHANGED <<tree, listed, given>>
    /\ UNCHANGED <<pipeVars, pathVars, extractVars, cmdLog, store>>

\* The loop has run through the listing.
LoopEnds ==
    /\ opc = "loop"
    /\ listed = <<>>
    /\ opc' = "returned"
    /\ UNCHANGED <<tree, listed, given, logged>>
    /\ UNCHANGED <<pipeVars, pathVars, extractVars, cmdLog, store>>

NextSize ==
    \/ BaseMissing
    \/ MakeCategories
    \/ MoveItem
    \/ MoveRaises
    \/ LoopEnds

SpecSize == InitSize /\ [][NextSize]_vars

----------------------------------------------------------------------------
(* Properties *)

StoredIds == { r.id : r \in store }

\* run_task has made its last loop iteration, or was left by an exception.
PassOver == pc = "crashed" \/ (pc = "loop" /\ k > Len(competition_news))

\* Call i of the log began after every earlier call for its id had returned,
\* and every other call for its id began after it returned.
FirstAlone(i) ==
    /\ \A j \in 1..Len(callLog) :
          (j # i /\ callLog[j].id = callLog[i].id) => (j > i /\ callLog[j].begun >= i)
    /\ \A w \in Paths :
          (wcomp[w] # None /\ Row(wcomp[w].competition).id = callLog[i].id)
             => wcomp[w].begun >= i

\* C1: when save_competition is called again with an id after a first call
\* with that id has returned, the first call returned True and every later one
\* returns False, and the table holds under that id exactly the row the first
\* call wrote: nothing of a later call is written.
C1_InsertIfAbsentTwice ==
    \A i \in 1..Len(callLog) :
        FirstAlone(i) =>
            /\ callLog[i].ret = "True"
            /\ { r \in store : r.id = callLog[i].id } = {callLog[i].row}
            /\ \A j \in 1..Len(callLog) :
                  (j > i /\ callLog[j].id = callLog[i].id) => callLog[j].ret = "False"

\* A second call with the id of a first one, with another title and url.
C1_Witness ==
    \E i, j \in 1..Len(callLog) :
        /\ FirstAlone(i) /\ j > i
        /\ callLog[j].id = callLog[i].id
        /\ callLog[j].row.title # callLog[i].row.title
        /\ callLog[j].row.url # callLog[i].row.url
        /\ callLog[i].ret = "True" /\ callLog[j].ret = "False"
        /\ callLog[i].row \in store

TrueCalls(id) ==
    { i \in 1..Len(callLog) : callLog[i].id = id /\ callLog[i].ret = "True" }

InFlight(id) ==
    \E w \in Paths : wcomp[w] # None /\ Row(wcomp[w].competition).id = id

C3_PublishOnlyOnInsert ==
    /\ \A i \in 1..Len(passLog) : passLog[i].pushed => passLog[i].saved = "True"
    /\ \A id \in Ids : pushCount[id] <= 1
    /\ pc \in {"iter", "await"} =>
          /\ Row(competition_news[k]) \in store
          /\ passLog[Len(passLog)].index = competition_news[k].index
          /\ passLog[Len(passLog)].saved = "True"

\* An id published in an earlier pass comes up again, as another announcement,
\* and is not published.
C3_Witness ==
    \E i \in 1..Len(passLog) :
        /\ passLog[i].saved = "False" /\ ~passLog[i].pushed
        /\ pushCount[IdOf(passLog[i].index)] = 1
        /\ \E r \in store : r.id = IdOf(passLog[i].index) /\ r.title # passLog[i].title

\* C4: in every pass, parse_news_content is called, save_competition is
\* reached and a row is stored only for titles that contain a relevance
\* keyword.
C4_IrrelevantNeverProcessed ==
    LET Relevant(t) == \E kw \in competition_keywords : Contains(t, kw)
    IN  /\ \A c \in parseCalls : Relevant(c.title)
        /\ \A i \in 1..Len(passLog) : Relevant(passLog[i].title)
        /\ \A r \in store : Relevant(r.title)

\* A pass is over whose listing held an entry without a keyword before a
\* relevant one, which was published.
C4_Witness ==
    /\ PassOver /\ pc = "loop"
    /\ Len(page.titles) = 2 /\ page.titles[1] = TitleC
    /\ \E i \in 1..Len(passLog) : passLog[i].index = 2 /\ passLog[i].pushed

C6_TransportFailureNotInserted ==
    \A i \in 1..Len(passLog) :
        page.details[passLog[i].index] # "200" =>
            /\ passLog[i].saved \notin {"True", "False", "raised"}
            /\ IdOf(passLog[i].index) \in StoredIds => IdOf(passLog[i].index) \in seenAtStart

\* C7: no pass ends scheduled_task: whatever a pass raises, the scheduler goes
\* on to the sleep and to the next pass.
C7_SchedulerSurvivesEveryPass == pc # "crashed"

\* C8: when run_task is over, every relevant entry with content and an unseen
\* id that came after an entry that failed (a list item without title, an
\* extraction without result, an insert that returned False or raised), and
\* whose own insert did not raise, has been inserted and published.
C8_LaterEntriesStillProcessed ==
    PassOver =>
        \A n \in 1..Len(competition_news) :
            LET c == competition_news[n]
                failedBefore ==
                    \E q \in 1..(c.index - 1) :
                        \/ page.titles[q] = <<>>
                        \/ \E i \in 1..Len(passLog) :
                              /\ passLog[i].index = q
                              /\ passLog[i].saved \in {"not_called", "False", "raised"}
                raised ==
                    \E i \in 1..Len(passLog) :
                        passLog[i].index = c.index /\ passLog[i].saved = "raised"
            IN  ( /\ "content" \in DOMAIN c /\ IdOf(c.index) \notin seenAtStart
                  /\ failedBefore /\ ~raised )
                    => \E i \in 1..Len(passLog) :
                          /\ passLog[i].index = c.index
                          /\ passLog[i].saved = "True" /\ passLog[i].pushed

\* C9: a delivery that raises ends neither send_message nor the pass, and a
\* fan-out over a subscriber set that stayed as it was has attempted every
\* member when it is over, whichever deliveries raised.
C9_FanOutIndependent ==
    /\ exc # "delivery"
    /\ (pc = "loop" /\ cur = "done" /\ it_stable = chat_ids) => it_seen = chat_ids
    /\ failed \subseteq it_seen

\* A fan-out over two subscribers is over: every delivery raised, both were
\* attempted, and the pass goes on.
C9_Witness ==
    /\ pc = "loop" /\ cur = "done"
    /\ it_stable = chat_ids
    /\ Cardinality(chat_ids) = 2
    /\ failed = chat_ids /\ it_seen = chat_ids

\* C10: a listing fetch that ended in a network error or in a response of
\* another status than 200 gives an empty list: the pass saves and publishes
\* nothing.
C10_ListingFailureGivesNothing ==
    page.listing \in {"neterr", "500"} =>
        /\ news_urls = <<>>
        /\ passLog = <<>>
        /\ parseCalls = {}

\* parse_news_content has returned a result for doc.
Extracted == info # NotCalled /\ info # None

\* The groups of each date pattern's match on t, in list order: one group for
\* the labelled patterns, two for the range patterns, <<>> without a match.
DateGroups(t) ==
    LET one(c) == IF c = <<>> THEN <<>> ELSE <<c>>
    IN  << one(SearchLabelled(t, <<"bao", "ming", "ri", "qi">>, DateClass)),
           one(SearchLabelled(t, <<"bao", "ming", "shi", "jian">>, DateClass)),
           RangeGroups(t, YmdDates, {"zhi", "dao"}, FALSE),
           RangeGroups(t, DotDates, {"zhi", "dao"}, FALSE),
           RangeGroups(t, YmdDates, {"qi", "zhi", "dao"}, TRUE),
           RangeGroups(t, DotDates, {"qi", "zhi", "dao"}, TRUE) >>

\* value is what the lowest-indexed pattern that matched gave.
LowestWins(results, value) ==
    \A i \in 1..Len(results) :
        (results[i] # <<>> /\ \A j \in 1..(i - 1) : results[j] = <<>>) => value = results[i]

\* C11: in each of the four families the field is the value captured by the
\* lowest-indexed pattern that matches the text, whatever the later patterns
\* match and wherever in the text they match.
C11_FirstMatchWins ==
    Extracted =>
        /\ LowestWins(date_patterns(info.content), info.date_info)
        /\ LowestWins(requirements_patterns(info.content), info.requirements)
        /\ LowestWins(organizer_patterns(info.content), info.organizer)
        /\ LowestWins(undertaker_patterns(info.content), info.undertaker)

\* The third organizer pattern matches on the first line, the first pattern
\* on the second: the field is the first pattern's value.
C11_Witness ==
    /\ Extracted
    /\ info.content = <<"nl", "zhu", "ban", "fang", ":", "CAC", "nl", "zhu", "ban", ":", "CAA">>
    /\ organizer_patterns(info.content)[3] = <<"CAC">>
    /\ info.organizer = <<"CAA">>

\* C12: a result of parse_news_content has the four fields, each one the
\* value of a pattern of its family that matched or the family's sentinel,
\* and none of them empty.
C12_FieldsAlwaysPresent ==
    Extracted =>
        /\ {"date_info", "requirements", "organizer", "undertaker"} \subseteq DOMAIN info
        /\ \A f \in {"date_info", "requirements", "organizer", "undertaker"} :
              info[f] # <<>>
        /\ \/ info.date_info = NoDate
           \/ \E i \in 1..6 : date_patterns(info.content)[i] = info.date_info
        /\ \/ info.requirements = NoRequirements
           \/ \E i \in 1..4 : requirements_patterns(info.content)[i] = info.requirements
        /\ \/ info.organizer = NoOrganizer
           \/ \E i \in 1..3 : organizer_patterns(info.content)[i] = info.organizer
        /\ \/ info.undertaker = NoUndertaker
           \/ \E i \in 1..3 : undertaker_patterns(info.content)[i] = info.undertaker

\* A page on which the organizer's value is one blank and the undertaker's
\* label stands at the end of the text: a matched value and three sentinels.
C12_Witness ==
    /\ Extracted
    /\ info.organizer = <<" ">>
    /\ info.undertaker = NoUndertaker
    /\ Contains(info.content, <<"cheng", "ban", ":">>)
    /\ info.date_info = NoDate
    /\ info.requirements = NoRequirements

\* C13: when the lowest-indexed date pattern that matches has two groups,
\* date_info is the first group, zhi, and the second group; when it has one
\* group, date_info is that group.
C13_DateRangeJoined ==
    Extracted =>
        LET groups == DateGroups(info.content)
        IN  \A i \in 1..Len(groups) :
                (groups[i] # <<>> /\ \A j \in 1..(i - 1) : groups[j] = <<>>) =>
                    /\ Len(groups[i]) = 2 =>
                          info.date_info = groups[i][1] \o <<"zhi">> \o groups[i][2]
                    /\ Len(groups[i]) = 1 => info.date_info = groups[i][1]

\* The text joins two dates by qi between blanks, which only the fifth
\* pattern matches: the field joins them by zhi.
C13_Witness ==
    /\ Extracted
    /\ info.content = <<"nl", "Y2", " ", "qi", " ", "Y1">>
    /\ DateGroups(info.content)[3] = <<>>
    /\ DateGroups(info.content)[5] = << <<"Y2">>, <<"Y1">> >>
    /\ info.date_info = <<"Y2", "zhi", "Y1">>

\* The images of doc that have a src, are downloaded with status 200, are
\* opened and recognized, and show some text.
ReadImages ==
    SelectSeq(doc.imgs,
              LAMBDA im : im.src /\ im.fetch = 200 /\ im.readable /\ im.text # <<>>)

RECURSIVE BrokenLines(_)
BrokenLines(imgs) ==
    IF imgs = <<>> THEN <<>> ELSE <<"nl">> \o Head(imgs).text \o BrokenLines(Tail(imgs))

\* C14: the content of a result is the text of every image of the page that
\* was read, each after a line break, in the order of the images; an image
\* that was not read adds nothing and ends nothing.
C14_ImageFailureIsolated ==
    Extracted => info.content = BrokenLines(ReadImages)

\* Three images, the second one not downloaded: the text of the first and of
\* the third are the content.
C14_Witness ==
    /\ Extracted
    /\ doc.imgs = <<ImgOrganizer, ImgBroken, ImgDates>>
    /\ info.content = <<"nl">> \o ImgOrganizer.text \o <<"nl">> \o ImgDates.text
    /\ info.organizer = <<"CAA">>
    /\ info.date_info = <<"Y1", "zhi", "Y2">>

\* C15: a page fetched with status 200 that has no image gives the empty
\* content and the four sentinels, whatever its HTML says.
C15_NoImagesAllSentinels ==
    (Extracted /\ doc.status = 200 /\ doc.imgs = <<>>) =>
        /\ info.content = <<>>
        /\ info.date_info = NoDate
        /\ info.requirements = NoRequirements
        /\ info.organizer = NoOrganizer
        /\ info.undertaker = NoUndertaker

\* A page without image whose HTML names an organizer and a date range.
C15_Witness ==
    /\ Extracted
    /\ doc.status = 200 /\ doc.imgs = <<>>
    /\ Contains(doc.html, <<"zhu", "ban", ":", "WEB">>)
    /\ info.organizer = NoOrganizer

\* The command of the log that was the last one for chat c, 0 when none was.
LastCmd(c) ==
    LET mine == { i \in 1..Len(cmdLog) : cmdLog[i].chat = c }
    IN  IF mine = {} THEN 0 ELSE CHOOSE i \in mine : \A j \in mine : j <= i

\* chat_ids as the command at position i of the log left it.
SetAfter(i) == IF i < Len(cmdLog) THEN cmdLog[i + 1].before ELSE chat_ids

\* C16: a subscribe of a chat id that is in the set and an unsubscribe of one
\* that is not leave the set as it was, and after any sequence of commands a
\* chat id is in the set exactly when the last command for it was subscribe.
C16_CommandsIdempotent ==
    /\ \A i \in 1..Len(cmdLog) :
          /\ (cmdLog[i].cmd = "subscribe" /\ cmdLog[i].chat \in cmdLog[i].before)
                => SetAfter(i) = cmdLog[i].before
          /\ (cmdLog[i].cmd = "unsubscribe" /\ cmdLog[i].chat \notin cmdLog[i].before)
                => SetAfter(i) = cmdLog[i].before
    /\ \A c \in Chats :
          c \in chat_ids <=> (LastCmd(c) # 0 /\ cmdLog[LastCmd(c)].cmd = "subscribe")

\* A chat id subscribed twice, another unsubscribed without having been
\* subscribed, then subscribed and unsubscribed.
C16_Witness ==
    /\ Len(cmdLog) = 4
    /\ \E i \in 1..4 : cmdLog[i].cmd = "subscribe" /\ cmdLog[i].chat \in cmdLog[i].before
    /\ \E i \in 1..4 : cmdLog[i].cmd = "unsubscribe" /\ cmdLog[i].chat \notin cmdLog[i].before
    /\ Cardinality(chat_ids) = 1

\* C17: no step removes or changes a row of the table, and the table never
\* holds two rows with one id: the stored ids only grow and each keeps the
\* row first written for it.
C17_StoreOnlyGrows ==
    [][ /\ \A r \in store : r \in store'
        /\ \A r1, r2 \in store' : r1.id = r2.id => r1 = r2 ]_vars

\* The table holds a row for every ordinal, and a pass that began with both
\* has had its insert refused.
C17_Witness ==
    /\ StoredIds = Ids
    /\ seenAtStart = Ids
    /\ \E i \in 1..Len(passLog) : passLog[i].saved = "False"

\* C18: a pass starts only from the point where scheduled_task is about to
\* call run_task, with no pass in progress; that point is reached only when
\* the sleep returns (or the process starts); and the sleep begins only when
\* run_task has returned.
C18_PassesNeverOverlap ==
    [][ /\ (page = NoPage /\ page' # NoPage) =>
              (pc = "idle" /\ news_urls = <<>> /\ passLog = <<>>)
        /\ (pc' = "idle" /\ pc # "idle") => pc \in {"sleep", "crashed"}
        /\ (pc' = "sleep" /\ pc # "sleep") => (pc = "loop" /\ k > Len(competition_news))
        /\ pc = "sleep" => pc' \in {"sleep", "idle"} ]_vars

\* A pass is running with a subscriber in the set: subscribers are only added
\* during a sleep, so a pass has completed and its sleep has returned.
C18_Witness ==
    /\ pc = "loop"
    /\ page.listing = "200"
    /\ chat_ids # {}
    /\ store # {}

\* send_message is over: its loop ended, or the for statement raised.
FanOutOver == (pc = "loop" /\ cur = "done") \/ (pc = "crashed" /\ exc = "RuntimeError")

\* C19: whatever commands were handled during its awaited deliveries, a
\* fan-out ends without an exception and has attempted every chat id that was
\* in the set from its beginning to its end.
C19_CommandDuringFanOutHarmless ==
    FanOutOver => (pc # "crashed" /\ it_stable \subseteq it_seen)

\* C20: a relevant entry with content whose insert raised no error is
\* published exactly when its ordinal, its position among all the items of
\* the listing, was not a stored id when the pass began, whatever its title
\* and url.
C20_PublishedByOrdinal ==
    \A i \in 1..Len(passLog) :
        LET e == passLog[i]
        IN  (e.hasContent /\ e.saved # "raised") =>
                /\ e.pushed <=> IdOf(e.index) \notin seenAtStart
                /\ page.titles[e.index] = e.title

\* An announcement stored at ordinal 1 comes up at ordinal 2, behind an item
\* that is not relevant, and is published again.
C20_Witness ==
    \E i \in 1..Len(passLog) :
        /\ passLog[i].index = 2 /\ passLog[i].pushed
        /\ page.titles[1] = TitleC
        /\ \E r \in store : r.id = "1" /\ r.title = passLog[i].title /\ "1" \in seenAtStart

\* The entry of the log for which the running pass is at its fan-out or past it.
LastEntry == passLog[Len(passLog)]

\* The insert is committed when delivery is attempted, and an id that was
\* stored when a pass began is not published in it, also when no delivery of
\* it has ever returned without error.
InsertedOnceForAll ==
    /\ pc \in {"iter", "await"} =>
          /\ Row(competition_news[k]) \in store
          /\ LastEntry.index = competition_news[k].index
          /\ IdOf(LastEntry.index) \notin seenAtStart
    /\ \A i \in 1..Len(passLog) :
          IdOf(passLog[i].index) \in seenAtStart =>
              /\ ~passLog[i].pushed
              /\ \E r \in store : r.id = IdOf(passLog[i].index)
    /\ undelivered \subseteq StoredIds

\* The claim as it is worded: no chat id that subscribed after the insert is
\* given the id.
C21_LateSubscriberNeverReceives ==
    /\ InsertedOnceForAll
    /\ it_late = {}

\* C21: the insert is committed before a delivery is attempted and is never
\* undone; an id inserted while there was no subscriber, or whose every
\* delivery failed, is never published in a later pass; and a chat id is
\* given an id only in the one fan-out that follows its insert, so that the
\* chat ids which subscribed after the insert and are given the id all
\* subscribed while that fan-out was suspended at an earlier delivery.
C21_NoRepublishAfterInsert ==
    /\ InsertedOnceForAll
    /\ pc \in {"iter", "await"} => (LastEntry.pushed /\ LastEntry.saved = "True")
    /\ it_late \subseteq it_seen
    /\ it_late # {} => it_seen \ it_late # {}

\* An id of which no delivery ever succeeded comes up again, for the same
\* announcement, in a pass in which there is a subscriber, and is not
\* published.
C21_Witness ==
    \E i \in 1..Len(passLog) :
        /\ passLog[i].saved = "False" /\ ~passLog[i].pushed
        /\ IdOf(passLog[i].index) \in undelivered
        /\ IdOf(passLog[i].index) \in seenAtStart
        /\ chat_ids # {}
        /\ \E r \in store : r.id = IdOf(passLog[i].index) /\ r.title = passLog[i].title

\* C22: when organize_folders has returned from a base directory with
\* subdirectories, nothing was logged as an error, every subdirectory that
\* was there before the call is no longer in the base directory and is in
\* exactly one category directory, the one of its total size, and the three
\* category directories are in the base directory, none inside another.
C22_SizeModeSortsEverySubdirectory ==
    (opc = "returned" /\ given # {}) =>
        /\ logged = "none"
        /\ \A e \in given :
              /\ ~isdir(tree, e.path)
              /\ { c \in Categories : isdir(tree, <<c>> \o e.path) } = { Dest(total_size(given, e.path)) }
        /\ \A c \in Categories : isdir(tree, <<c>>)
        /\ \A c1, c2 \in Categories : ~isdir(tree, <<c1, c2>>)

====
